---- MODULE Spec2Model ----
(***************************************************************************)
(* SOC dashboard API server (src/api/api_server.js): the real-time         *)
(* scanner, the data cache, the data files, the dashboard read endpoint    *)
(* and the WebSocket broadcast, as a state machine over the Node.js event  *)
(* loop.                                                                   *)
(*                                                                         *)
(* Event-loop discipline.  A callback started by the loop (a timer, the    *)
(* completion of a child process, a socket event) runs to its first await  *)
(* and the continuations it leaves behind (microtasks) are all run before  *)
(* the loop starts the next callback.  The one exception is the HTTP       *)
(* parser: the requests found in one chunk of socket data are handed to    *)
(* their handlers back to back, before any continuation runs.  `parsing`   *)
(* is TRUE exactly while further requests of the same chunk may still be   *)
(* dispatched.                                                             *)
(*                                                                         *)
(* Data abstraction.  The content produced by one collection run (one      *)
(* live scan, one run of generate_report.sh) is represented by the run's   *)
(* stamp, a number drawn from one global counter at the moment the data    *)
(* is produced; stamp 0 is whatever content was on disk at boot.           *)
(*                                                                         *)
(* Specifications.  Spec is the scanner, its controls, the WebSocket       *)
(* clients and the clock together.  SpecCtl, SpecPush, SpecRead and        *)
(* SpecAlerts each take the scanner with one group of its neighbours.      *)
(* SpecThreat follows the threat level through the two producers of        *)
(* executive_summary.json, and SpecProbes follows the individual probes    *)
(* of one live scan and of one report run.                                 *)
(***************************************************************************)
EXTENDS Integers, Sequences, FiniteSets, TLC

\* ------------------------------------------------------------------ bounds
MaxScans == 2
MaxTicks == 4
MaxClients == 2
MaxReqs == 2

\* ------------------------------------------------------- program constants
scanIntervalMs == 10000
bootDelayMs == 5000
ttl == 30000
execTimeoutMs == 30000
updateIntervalMs == 30000


\* The clock is observed at the instants at which the server's own timers
\* fall due when it starts scanning by itself: bootDelayMs after the start,
\* then every scanIntervalMs.
Instant(n) == IF n = 0 THEN 0 ELSE bootDelayMs + (n - 1) * scanIntervalMs
NextInstant(t) == IF t < bootDelayMs THEN bootDelayMs ELSE t + scanIntervalMs

\* JavaScript null for a time stamp or a timer handle.
NULL == 0 - 1

VARIABLES
  now,           \* Date.now(), in ms since the server started
  parsing,       \* the HTTP parser may still dispatch a request of this chunk
  isActive,      \* RealTimeScanner.isActive
  scanInterval,  \* RealTimeScanner.scanInterval: a timer id, or NULL
  scanCount,     \* RealTimeScanner.scanCount
  lastScanTime,  \* RealTimeScanner.lastScanTime, or NULL
  intervals,     \* armed setInterval timers of the scanner: [id, ms, due]
  nIntervals,    \* number of setInterval calls made by the scanner
  bootTimer,     \* the 5 s auto-start setTimeout is still pending
  cycles,        \* performLiveScan calls in flight: [id, pc, by, data, saved]
  nCycles,       \* number of performLiveScan calls begun
  lastDone,      \* the performLiveScan call that finished last
  startCalls,    \* startRealTimeScanning calls awaiting their initial scan
  ctl,           \* the last Start/Stop call: [op, effective]
  files,         \* OUTPUT_DIR: file name -> [st, stamp]
  cache,         \* dataCache.cache: key -> [data, timestamp]
  nextStamp,     \* stamp of the next collection run that produces data
  published,     \* stamp of the last live scan whose save wrote every file
  reqs,          \* handlers awaiting runMonitoringScript('generate_report.sh')
  nReqs,         \* number of requests that called runMonitoringScript
  resp,          \* the last GET /api/dashboard response: its status and
                 \* body, how the script ended, `published` at that time
  clients,       \* wss.clients, in insertion order
  readyState,    \* client -> readyState
  updateIntervals, \* client -> when its 30 s update timer is due, or NULL
  lastMsg,       \* the last message handed to a client's socket
  probeRun,      \* the probes of the gatherLiveData call being followed
  monitorRun,    \* the monitors of the run_all_monitors call being followed
  sect,          \* the counts calculate_threat_level reads from the files
  lastSnap,      \* the executive summary produced last
  prevSnap,      \* the executive summary produced before it
  shape,         \* alert file -> the shape of the JSON value it holds
  alertsResp,    \* the last GET /api/alerts response
  outbound,      \* client -> number of messages its socket holds unsent
  nSends,        \* number of broadcasts followed in `outbound`
  reconnectAttempts, \* the dashboard page's reconnectAttempts
  pageSockets,   \* WebSocket objects the page created: [id, state, opened]
  reconnectTimers, \* pending setTimeout calls of scheduleReconnect
  nPageSockets,  \* number of WebSocket objects the page created
  statusResp,    \* the last GET /api/scan/status response
  survivors,     \* the cache entries the last manual scan left in place
  runResp,       \* the last POST /api/scan/run response
  alertFile,     \* alert_summary.json: the counts it holds
  socFile,       \* soc_status.json: the status it holds
  updateData,    \* data of the last update message built from the two
  alertInput,    \* the alert arrays GET /api/alerts read
  recentAlerts   \* recent_alerts of the last GET /api/alerts response

scanner == <<isActive, scanInterval, scanCount, lastScanTime>>
sched == <<intervals, nIntervals, bootTimer, cycles, nCycles, lastDone,
           startCalls, ctl>>
store == <<files, cache, nextStamp, published>>
http == <<reqs, nReqs, resp>>
sockets == <<clients, readyState, updateIntervals, lastMsg>>
probes == <<probeRun, monitorRun>>
threat == <<sect, lastSnap, prevSnap>>
alerts == <<shape, alertsResp>>
buffers == <<outbound, nSends>>
page == <<reconnectAttempts, pageSockets, reconnectTimers, nPageSockets>>
manual == <<statusResp, survivors, runResp>>
summaries == <<alertFile, socFile, updateData>>
recent == <<alertInput, recentAlerts>>
more == <<buffers, page, manual, summaries, recent>>
slices == <<probes, threat, alerts, more>>
vars == <<now, parsing, scanner, sched, store, http, sockets, slices>>

\* ------------------------------------------------------------- data files
\* saveLiveData's filesToSave, in the order they are written.
filesToSave ==
  <<"login_summary", "failed_logins", "top_attackers", "portscans",
    "suspicious_processes", "open_ports", "connection_stats",
    "security_metrics", "alert_summary", "executive_summary">>

\* The keys of the payload built by gatherLiveData (besides timestamp).
LiveKeys ==
  {"login_summary", "failed_logins", "top_attackers", "portscans",
   "suspicious_processes", "open_ports", "connection_stats",
   "security_metrics", "alert_summary", "executive_summary"}

\* The keys of the object built by GET /api/dashboard (besides timestamp);
\* each is read from the file of the same name.
DashboardKeys ==
  {"login_summary", "failed_logins", "top_attackers", "brute_force_alerts",
   "portscans", "open_ports", "connection_stats", "suspicious_processes",
   "top_processes", "process_summary", "file_integrity", "recent_changes",
   "ip_geolocation", "attack_by_country", "threat_map", "executive_summary",
   "security_metrics", "alert_summary", "soc_status"}

\* The files generate_report.sh and the monitors it runs write, among those
\* the dashboard reads.
ReportFiles ==
  {"failed_logins", "top_attackers", "brute_force_alerts", "login_summary",
   "portscans", "open_ports", "connection_stats", "file_integrity",
   "recent_changes", "ip_geolocation", "attack_by_country", "threat_map",
   "executive_summary", "security_metrics", "alert_summary", "soc_status"}

\* The files ensureRequiredFiles creates when missing, among those the
\* dashboard reads.
requiredFiles ==
  {"soc_status", "ip_geolocation", "attack_by_country", "threat_map",
   "file_integrity", "recent_changes", "top_processes", "process_summary"}

Files == DashboardKeys
SavedFiles == {filesToSave[i] : i \in 1..Len(filesToSave)}
CacheKeys == Files \cup {"dashboard_data", "alerts_data"}

\* ---------------------------------------------------------------- helpers
CycleIds == {c.id : c \in cycles}

\* A continuation (microtask) is waiting to run.
Pending ==
  \/ cycles # {}
  \/ \E s \in startCalls : s.settled # "pending"
  \/ \E r \in reqs : r.pc = "ready"

\* The loop may start a new callback (timer, child exit, socket event).
LoopIdle == ~Pending
\* The HTTP parser may hand a request to its handler.
MayDispatch == LoopIdle \/ parsing

NoCycle == [id |-> 0, by |-> "none", data |-> 0, saved |-> 0,
            broadcasts |-> 0, missed |-> {}, keys |-> {}, settled |-> "none",
            pushed |-> FALSE, inStore |-> FALSE]
NoResp == [status |-> 0, body |-> <<>>, outcome |-> "none", pubAt |-> 0,
           invented |-> {}]
NoMsg == [type |-> "none", top |-> {}]
NoRun == [started |-> {}, finished |-> {}]
NoMonitors == [present |-> {}, started |-> {}, finished |-> {}]
NoSect == [failed_logins |-> 0, suspicious_count |-> 0, scan_count |-> 0,
           recent_changes |-> 0]
NoSnap == [path |-> "none", inputs |-> NoSect, score |-> NULL,
           level |-> "none"]
NoAlerts == [status |-> 0, sections |-> <<>>]

\* The files GET /api/alerts iterates over as arrays.
AlertFiles == {"brute_force_alerts", "suspicious_processes", "portscans"}
NoEntry == [data |-> 0, timestamp |-> NULL]

\* A DataCache.get that still serves an entry exactly as old as the TTL.
CacheHit_Inclusive(key) ==
  /\ cache[key].timestamp # NULL
  /\ now - cache[key].timestamp <= ttl

\* DataCache.get: the entry is served while younger than the TTL.
CacheHit(key) ==
  /\ cache[key].timestamp # NULL
  /\ now - cache[key].timestamp < ttl

\* DataCache.set
CacheSet(c, key, data) ==
  [c EXCEPT ![key] = [data |-> data, timestamp |-> now]]

\* readJSONFile: the value returned (NULL for null) and whether the call
\* lets an exception escape (the try/catch makes that never).
readJSONFile(f) ==
  IF CacheHit(f) THEN [value |-> cache[f].data, threw |-> FALSE]
  ELSE IF files[f].st = "absent" THEN [value |-> NULL, threw |-> FALSE]
  ELSE IF files[f].st = "bad" THEN [value |-> NULL, threw |-> FALSE]
  ELSE [value |-> files[f].stamp, threw |-> FALSE]

\* readJSONFile caches what it parsed from disk.
ReadCaches(f) == ~CacheHit(f) /\ files[f].st = "ok"

InitProcess ==
  /\ now = 0
  /\ parsing = FALSE
  /\ isActive = FALSE
  /\ scanInterval = NULL
  /\ scanCount = 0
  /\ lastScanTime = NULL
  /\ intervals = {}
  /\ nIntervals = 0
  /\ bootTimer = TRUE
  /\ cycles = {}
  /\ nCycles = 0
  /\ lastDone = NoCycle
  /\ startCalls = {}
  /\ ctl = [op |-> "none", effective |-> FALSE]
  /\ cache = [k \in CacheKeys |-> NoEntry]
  /\ nextStamp = 1
  /\ published = 0
  /\ reqs = {}
  /\ nReqs = 0
  /\ resp = NoResp
  /\ clients = <<>>
  /\ readyState = [c \in 1..MaxClients |-> "CLOSED"]
  /\ updateIntervals = [c \in 1..MaxClients |-> NULL]
  /\ lastMsg = NoMsg

\* The data directory as found at boot, after ensureRequiredFiles.
InitFiles ==
  \E st \in {"absent", "bad", "ok"} :
    files = [f \in Files |->
               IF st = "absent" /\ f \in requiredFiles
               THEN [st |-> "ok", stamp |-> 0]
               ELSE [st |-> st, stamp |-> 0]]

\* No gatherLiveData call and no run_all_monitors call is being followed.
InitProbes ==
  /\ probeRun = NoRun
  /\ monitorRun = NoMonitors

\* No executive summary has been produced.
InitThreat ==
  /\ sect = NoSect
  /\ lastSnap = NoSnap
  /\ prevSnap = NoSnap

\* The alert files hold arrays and GET /api/alerts was not yet called.
InitAlerts ==
  /\ shape = [f \in AlertFiles |-> "array"]
  /\ alertsResp = NoAlerts

\* No GET /api/scan/status response yet.
NoStatus == [isActive |-> FALSE, lastScanTime |-> NULL, scanCount |-> NULL]

\* alert_summary.json does not exist or holds no counts.
NoSummary == [total_alerts |-> NULL, critical_alerts |-> NULL,
              high_alerts |-> NULL, medium_alerts |-> NULL,
              low_alerts |-> NULL]

\* No update message was built yet.
NoUpdate == [soc_status |-> "none", critical_alerts |-> NULL]

\* GET /api/alerts has read no alert arrays yet.
NoInput == [brute_force_alerts |-> <<>>, suspicious_activities |-> <<>>,
            port_scan_alerts |-> <<>>]

\* Nothing is held for a client, the page has not connected, no status or
\* manual scan was requested, and the summaries are as ensureRequiredFiles
\* leaves them.
InitMore ==
  /\ outbound = [c \in 1..MaxClients |-> 0]
  /\ nSends = 0
  /\ reconnectAttempts = 0
  /\ pageSockets = {}
  /\ reconnectTimers = {}
  /\ nPageSockets = 0
  /\ statusResp = NoStatus
  /\ survivors = [k \in CacheKeys |-> NoEntry]
  /\ runResp = "none"
  /\ alertFile = NoSummary
  /\ socFile = "operational"
  /\ updateData = NoUpdate
  /\ alertInput = NoInput
  /\ recentAlerts = <<>>

Init ==
  /\ InitProcess
  /\ InitFiles
  /\ InitProbes
  /\ InitThreat
  /\ InitAlerts
  /\ InitMore

\* ------------------------------------------------------- RealTimeScanner
\* performLiveScan up to its first await (lines 763-769); `count` is the
\* value of scanCount the increment applies to.
BeginScan(by, count) ==
  /\ nCycles < MaxScans
  /\ lastScanTime' = now
  /\ scanCount' = count + 1
  /\ nCycles' = nCycles + 1
  /\ cycles' = cycles \cup {[id |-> nCycles + 1, pc |-> "gather", by |-> by,
                             data |-> 0, saved |-> 0]}

\* startRealTimeScanning without its `if (this.isActive) return` guard.
startRealTimeScanning_NoGuard(src) ==
  /\ isActive' = TRUE
  /\ scanInterval' = nIntervals + 1
  /\ nIntervals' = nIntervals + 1
  /\ intervals' = intervals \cup
        {[id |-> nIntervals + 1, ms |-> scanIntervalMs,
          due |-> now + scanIntervalMs]}
  /\ BeginScan("start", 0)
  /\ startCalls' = startCalls \cup
        {[src |-> src, cycle |-> nCycles + 1, settled |-> "pending"]}
  /\ ctl' = [op |-> "start", effective |-> ~isActive]
  /\ UNCHANGED lastDone

\* startRealTimeScanning calling performLiveScan without awaiting it.
startRealTimeScanning_NoAwait(src) ==
  IF isActive
  THEN /\ ctl' = [op |-> "start", effective |-> FALSE]
       /\ UNCHANGED <<scanner, intervals, nIntervals, cycles, nCycles,
                      lastDone, startCalls>>
  ELSE /\ isActive' = TRUE
       /\ scanInterval' = nIntervals + 1
       /\ nIntervals' = nIntervals + 1
       /\ intervals' = intervals \cup
             {[id |-> nIntervals + 1, ms |-> scanIntervalMs,
               due |-> now + scanIntervalMs]}
       /\ BeginScan("start", 0)
       /\ startCalls' = startCalls \cup
             {[src |-> src, cycle |-> nCycles + 1, settled |-> "resolved"]}
       /\ ctl' = [op |-> "start", effective |-> TRUE]
       /\ UNCHANGED lastDone

\* RealTimeScanner.startRealTimeScanning up to the await of the initial scan.
startRealTimeScanning(src) ==
  IF isActive
  THEN /\ ctl' = [op |-> "start", effective |-> FALSE]
       /\ UNCHANGED <<scanner, intervals, nIntervals, cycles, nCycles,
                      lastDone, startCalls>>
  ELSE /\ isActive' = TRUE
       /\ scanInterval' = nIntervals + 1
       /\ nIntervals' = nIntervals + 1
       /\ intervals' = intervals \cup
             {[id |-> nIntervals + 1, ms |-> scanIntervalMs,
               due |-> now + scanIntervalMs]}
       /\ BeginScan("start", 0)
       /\ startCalls' = startCalls \cup
             {[src |-> src, cycle |-> nCycles + 1, settled |-> "pending"]}
       /\ ctl' = [op |-> "start", effective |-> TRUE]
       /\ UNCHANGED lastDone

\* stopRealTimeScanning dropping the handle without clearInterval.
stopRealTimeScanning_NoClear ==
  IF ~isActive
  THEN /\ ctl' = [op |-> "stop", effective |-> FALSE]
       /\ UNCHANGED <<scanner, intervals>>
  ELSE /\ isActive' = FALSE
       /\ intervals' = intervals
       /\ scanInterval' = NULL
       /\ ctl' = [op |-> "stop", effective |-> TRUE]
       /\ UNCHANGED <<scanCount, lastScanTime>>

\* A stopRealTimeScanning that also resets the counters.
stopRealTimeScanning_Resets ==
  IF ~isActive
  THEN /\ ctl' = [op |-> "stop", effective |-> FALSE]
       /\ UNCHANGED <<scanner, intervals>>
  ELSE /\ isActive' = FALSE
       /\ intervals' = IF scanInterval # NULL
                       THEN {t \in intervals : t.id # scanInterval}
                       ELSE intervals
       /\ scanInterval' = NULL
       /\ ctl' = [op |-> "stop", effective |-> TRUE]
       /\ scanCount' = 0
       /\ lastScanTime' = NULL

\* RealTimeScanner.stopRealTimeScanning
stopRealTimeScanning ==
  IF ~isActive
  THEN /\ ctl' = [op |-> "stop", effective |-> FALSE]
       /\ UNCHANGED <<scanner, intervals>>
  ELSE /\ isActive' = FALSE
       /\ intervals' = IF scanInterval # NULL
                       THEN {t \in intervals : t.id # scanInterval}
                       ELSE intervals
       /\ scanInterval' = NULL
       /\ ctl' = [op |-> "stop", effective |-> TRUE]
       /\ UNCHANGED <<scanCount, lastScanTime>>

\* POST /api/scan/start-realtime
StartRequest ==
  /\ MayDispatch
  /\ startRealTimeScanning("http")
  /\ parsing' = TRUE
  /\ UNCHANGED <<now, slices, bootTimer, store, http, sockets>>

\* POST /api/scan/stop-realtime
StopRequest ==
  /\ MayDispatch
  /\ stopRealTimeScanning
  /\ parsing' = TRUE
  /\ UNCHANGED <<now, slices, nIntervals, bootTimer, cycles, nCycles, lastDone,
                 startCalls, store, http, sockets>>

\* The auto-start timer firing without calling startRealTimeScanning.
BootStart_NoStart ==
  /\ LoopIdle
  /\ bootTimer
  /\ now >= bootDelayMs
  /\ bootTimer' = FALSE
  /\ parsing' = FALSE
  /\ UNCHANGED <<now, slices, scanner, intervals, nIntervals, cycles,
                 nCycles, lastDone, startCalls, ctl, store, http, sockets>>

\* The auto-start setTimeout of lines 999-1006 fires.
BootStart ==
  /\ LoopIdle
  /\ bootTimer
  /\ now >= bootDelayMs
  /\ bootTimer' = FALSE
  /\ startRealTimeScanning("boot")
  /\ parsing' = FALSE
  /\ UNCHANGED <<now, slices, store, http, sockets>>

\* The setInterval callback of lines 740-742 fires.
IntervalTick ==
  /\ LoopIdle
  /\ \E t \in intervals :
       /\ t.due <= now
       /\ intervals' = (intervals \ {t}) \cup {[t EXCEPT !.due = now + t.ms]}
  /\ BeginScan("tick", scanCount)
  /\ parsing' = FALSE
  /\ UNCHANGED <<now, slices, isActive, scanInterval, nIntervals, bootTimer,
                 lastDone, startCalls, ctl, store, http, sockets>>

\* gatherLiveData: the payload of one live scan, its content standing for
\* the run that produced it.
gatherLiveData(stamp) == [stamp |-> stamp, keys |-> LiveKeys]

\* saveLiveData: the directory after the first k files of filesToSave have
\* been written (k < Len(filesToSave): writeFileSync threw at file k + 1).
saveLiveData(stamp, k) ==
  [f \in Files |->
     IF \E i \in 1..k : filesToSave[i] = f
     THEN [st |-> "ok", stamp |-> stamp]
     ELSE files[f]]

\* The points at which a save is taken to fail: before the first file, after
\* the first file, or not at all.
SavePoints == {0, 1, Len(filesToSave)}

\* saveLiveData without its try/catch.
saveLiveDataThrows_NoCatch(k) == k < Len(filesToSave)

\* saveLiveData's try/catch (lines 952-980): whether a save that failed at
\* file k + 1 lets the exception escape to performLiveScan.
saveLiveDataThrows(k) == FALSE

\* performLiveScan's try/catch (lines 763-780): how the promise settles when
\* a step of the scan threw.
performLiveScanSettles(threw) == "resolved"

\* The clients of wss.clients that are OPEN, in iteration order.
OpenClients == SelectSeq(clients, LAMBDA c : readyState[c] = "OPEN")
Range(q) == {q[i] : i \in 1..Len(q)}

\* The message broadcastLiveUpdate sends (lines 986-990): its type and its
\* top-level fields.
liveUpdateMessage ==
  [type |-> "live_update", top |-> {"type", "data", "timestamp"}]

\* broadcastLiveUpdate: the clients whose send is called when the send to
\* the thrower-th OPEN client throws (0: no send throws); forEach stops at
\* the exception.
broadcastLiveUpdate(thrower) ==
  IF thrower = 0 THEN Range(OpenClients)
  ELSE {OpenClients[i] : i \in 1..thrower}

\* The record left by a finished performLiveScan; `missed` are the clients
\* that were OPEN at the broadcast and whose send was never called.
\* `pushed`: the send to at least one client returned normally; `inStore`:
\* at that moment each file of filesToSave held the data of this scan.
Finished(c, bc, open, sent, threw) ==
  [id |-> c.id, by |-> c.by, data |-> c.data, saved |-> c.saved,
   broadcasts |-> bc, missed |-> open \ sent,
   keys |-> gatherLiveData(c.data).keys,
   settled |-> performLiveScanSettles(threw),
   pushed |-> Cardinality(sent) > (IF threw THEN 1 ELSE 0),
   inStore |-> \A f \in SavedFiles :
                 files[f] = [st |-> "ok", stamp |-> c.data]]

\* The awaiting startRealTimeScanning call, if any, learns how its scan
\* settled.
Settle(c, how) ==
  {IF s.cycle = c.id THEN [s EXCEPT !.settled = how] ELSE s : s \in startCalls}

\* performLiveScan, lines 769-772: gatherLiveData completes and saveLiveData
\* runs (it is synchronous up to its return).  A file it wrote holds the
\* array or object gatherLiveData built, a value of the expected shape.
ScanGatherAndSave(c) ==
  /\ c \in cycles /\ c.pc = "gather"
  /\ \E k \in SavePoints :
       /\ files' = saveLiveData(nextStamp, k)
       /\ published' = IF k = Len(filesToSave) THEN nextStamp ELSE published
       /\ IF saveLiveDataThrows(k)
          THEN LET d == [c EXCEPT !.data = nextStamp, !.saved = k]
               IN  /\ cycles' = cycles \ {c}
                   /\ lastDone' = Finished(d, 0, {}, {}, TRUE)
                   /\ startCalls' = Settle(c, performLiveScanSettles(TRUE))
          ELSE /\ cycles' = (cycles \ {c}) \cup
                    {[c EXCEPT !.pc = "saved", !.data = nextStamp,
                               !.saved = k]}
               /\ UNCHANGED <<lastDone, startCalls>>
       /\ shape' = [f \in AlertFiles |->
                      IF \E i \in 1..k : filesToSave[i] = f THEN "array"
                      ELSE shape[f]]
  /\ nextStamp' = nextStamp + 1
  /\ parsing' = FALSE
  /\ UNCHANGED <<now, scanner, intervals, nIntervals, bootTimer, nCycles,
                 ctl, cache, http, sockets, probes, threat, alertsResp,
                 more>>

\* performLiveScan, lines 775-780: broadcastLiveUpdate and the end of the
\* scan.
ScanBroadcast(c) ==
  /\ c \in cycles /\ c.pc = "saved"
  /\ \E thrower \in 0..Len(OpenClients) :
       /\ lastDone' = Finished(c, 1, Range(OpenClients),
                               broadcastLiveUpdate(thrower), thrower # 0)
       /\ startCalls' = Settle(c, performLiveScanSettles(thrower # 0))
       /\ lastMsg' = IF (thrower = 0 /\ Len(OpenClients) > 0) \/ thrower > 1
                      THEN liveUpdateMessage
                      ELSE lastMsg
  /\ cycles' = cycles \ {c}
  /\ parsing' = FALSE
  /\ UNCHANGED <<now, slices, scanner, intervals, nIntervals, bootTimer,
                 nCycles, ctl, store, http, clients, readyState,
                 updateIntervals>>

\* startRealTimeScanning resumes after `await this.performLiveScan()` and
\* returns to its caller (line 745; lines 637-642 and 1001-1005).
StartReturn(s) ==
  /\ s \in startCalls /\ s.settled # "pending"
  /\ startCalls' = startCalls \ {s}
  /\ parsing' = FALSE
  /\ UNCHANGED <<now, slices, scanner, intervals, nIntervals, bootTimer, cycles,
                 nCycles, lastDone, ctl, store, http, sockets>>

\* ------------------------------------------------------ GET /api/dashboard
\* runMonitoringScript rejecting when the child process fails.
runMonitoringScriptSettles_Rejects(outcome) ==
  IF outcome \in {"error", "timeout"} THEN "rejected" ELSE "resolved"

\* runMonitoringScript (lines 322-363): how the promise settles for each
\* outcome of the script; every branch calls resolve.
runMonitoringScriptSettles(outcome) == "resolved"

\* The paths of runMonitoringScript that settle without starting a child
\* process, and the outcomes of the child process.
NoExec == {"missing", "nogitbash"}
ExecOutcomes == {"ok", "error", "timeout"}

\* generateSampleData (lines 128-167): what it returns for a data type.
generateSampleData(dataType) ==
  IF dataType \in {"login_summary", "failed_logins", "security_metrics"}
  THEN "random"
  ELSE "empty"

\* The right-hand side of `readJSONFile(...) || ...` for each key of the
\* dashboard object (lines 396-414).
DashboardFallback(k) ==
  IF k \in {"login_summary", "failed_logins", "security_metrics"}
  THEN generateSampleData(k)
  ELSE "empty"

\* The sections of a dashboard object whose file gave null and that were
\* filled with freshly drawn random numbers.
Invented(body) ==
  {k \in DOMAIN body : body[k] = NULL /\ DashboardFallback(k) = "random"}

\* GET /api/dashboard up to `await runMonitoringScript(...)`: lines 380-392.
DashboardRequest ==
  /\ MayDispatch
  /\ IF CacheHit("dashboard_data")
     THEN /\ resp' = [status |-> 200, body |-> cache["dashboard_data"].data,
                      outcome |-> "cached", pubAt |-> published,
                      invented |-> Invented(cache["dashboard_data"].data)]
          /\ UNCHANGED <<reqs, nReqs>>
     ELSE /\ nReqs < MaxReqs
          /\ nReqs' = nReqs + 1
          /\ \/ \E o \in NoExec :
                  reqs' = reqs \cup
                    {[id |-> nReqs + 1, kind |-> "dashboard", pc |-> "ready",
                      started |-> now, wrote |-> FALSE, outcome |-> o,
                      settled |-> runMonitoringScriptSettles(o)]}
             \/ reqs' = reqs \cup
                    {[id |-> nReqs + 1, kind |-> "dashboard", pc |-> "exec",
                      started |-> now, wrote |-> FALSE,
                      outcome |-> "running",
                      settled |-> "pending"]}
          /\ UNCHANGED resp
  /\ parsing' = TRUE
  /\ UNCHANGED <<now, slices, scanner, sched, store, sockets>>

\* generate_report.sh, running as a child process, writes its files.
ScriptWrite(r) ==
  /\ r \in reqs /\ r.pc = "exec" /\ ~r.wrote
  /\ files' = [f \in Files |->
                 IF f \in ReportFiles THEN [st |-> "ok", stamp |-> nextStamp]
                 ELSE files[f]]
  /\ nextStamp' = nextStamp + 1
  /\ reqs' = (reqs \ {r}) \cup {[r EXCEPT !.wrote = TRUE]}
  /\ UNCHANGED <<now, slices, parsing, scanner, sched, cache, published, nReqs,
                 resp, sockets>>

\* exec called without its `timeout` option: the callback runs only when
\* the child exits by itself.
ExecDone_NoTimeout(r, o) ==
  /\ LoopIdle
  /\ r \in reqs /\ r.pc = "exec"
  /\ o \in ExecOutcomes \ {"timeout"}
  /\ o = "ok" => r.wrote /\ now - r.started < execTimeoutMs
  /\ o = "error" => now - r.started < execTimeoutMs
  /\ reqs' = (reqs \ {r}) \cup
       {[r EXCEPT !.pc = "ready", !.outcome = o,
                  !.settled = runMonitoringScriptSettles(o)]}
  /\ parsing' = FALSE
  /\ UNCHANGED <<now, slices, scanner, sched, store, nReqs, resp, sockets>>

\* The callback of exec (lines 337-345 and 353-361): the child exited, or
\* was killed at the 30 s timeout.
ExecDone(r, o) ==
  /\ LoopIdle
  /\ r \in reqs /\ r.pc = "exec"
  /\ o \in ExecOutcomes
  /\ o = "ok" => r.wrote /\ now - r.started < execTimeoutMs
  /\ o = "error" => now - r.started < execTimeoutMs
  /\ o = "timeout" => now - r.started >= execTimeoutMs
  /\ reqs' = (reqs \ {r}) \cup
       {[r EXCEPT !.pc = "ready", !.outcome = o,
                  !.settled = runMonitoringScriptSettles(o)]}
  /\ parsing' = FALSE
  /\ UNCHANGED <<now, slices, scanner, sched, store, nReqs, resp, sockets>>

\* GET /api/dashboard after the await: lines 394-427.  A section whose file
\* gave null takes its default or sample value, written NULL.
DashboardBuild(r) ==
  /\ r \in reqs /\ r.pc = "ready" /\ r.kind = "dashboard"
  /\ LET reads == [k \in DashboardKeys |-> readJSONFile(k)]
         threw == \/ r.settled = "rejected"
                  \/ \E k \in DashboardKeys : reads[k].threw
         body  == [k \in DashboardKeys |-> reads[k].value]
         read  == [k \in CacheKeys |->
                     IF k \in Files /\ ReadCaches(k)
                     THEN [data |-> files[k].stamp, timestamp |-> now]
                     ELSE cache[k]]
     IN  IF threw
         THEN /\ resp' = [status |-> 500, body |-> <<>>,
                          outcome |-> r.outcome, pubAt |-> published,
                          invented |-> {}]
              /\ UNCHANGED cache
         ELSE /\ resp' = [status |-> 200, body |-> body,
                          outcome |-> r.outcome, pubAt |-> published,
                          invented |-> Invented(body)]
              /\ cache' = CacheSet(read, "dashboard_data", body)
  /\ reqs' = reqs \ {r}
  /\ parsing' = FALSE
  /\ UNCHANGED <<now, slices, scanner, sched, files, nextStamp, published,
                 nReqs, sockets>>

\* ------------------------------------------------------------ WebSockets
\* The messages of the connection handler: the greeting (lines 683-687) and
\* the periodic update (lines 695-702), each with its type and its
\* top-level fields.
connectionMessage ==
  [type |-> "connection", top |-> {"type", "message", "timestamp"}]
updateMessage == [type |-> "update", top |-> {"type", "data"}]

\* wss.on('connection'): a client joins wss.clients, OPEN.  Connections are
\* numbered in the order they are made.
\* The handler sends the connection message and arms the client's update
\* timer (lines 683-706).
WsConnect(c) ==
  /\ LoopIdle
  /\ c \notin Range(clients)
  /\ \A d \in Range(clients) : d < c
  /\ \A d \in 1..MaxClients : d < c => \E e \in Range(clients) : d <= e
  /\ clients' = Append(clients, c)
  /\ readyState' = [readyState EXCEPT ![c] = "OPEN"]
  /\ lastMsg' = connectionMessage
  /\ updateIntervals' = [updateIntervals EXCEPT ![c] = now + updateIntervalMs]
  /\ parsing' = FALSE
  /\ UNCHANGED <<now, slices, scanner, sched, store, http>>

\* The update timer of a client fires (lines 690-706): the two files are
\* read through readJSONFile and the update message is sent; a socket that
\* is no longer OPEN sends nothing, and an exception of send is caught.
UpdateTick(c) ==
  /\ LoopIdle
  /\ updateIntervals[c] # NULL
  /\ updateIntervals[c] <= now
  /\ updateIntervals' = [updateIntervals EXCEPT ![c] = now + updateIntervalMs]
  /\ cache' = [k \in CacheKeys |->
                 IF k \in {"soc_status", "alert_summary"} /\ ReadCaches(k)
                 THEN [data |-> files[k].stamp, timestamp |-> now]
                 ELSE cache[k]]
  /\ \E sendThrows \in BOOLEAN :
       lastMsg' = IF readyState[c] = "OPEN" /\ ~sendThrows
                  THEN updateMessage
                  ELSE lastMsg
  /\ parsing' = FALSE
  /\ UNCHANGED <<now, slices, scanner, sched, files, nextStamp, published,
                 http, clients, readyState>>

\* The closing handshake of a client starts: it stays in wss.clients.
WsClosing(c) ==
  /\ LoopIdle
  /\ c \in Range(clients) /\ readyState[c] = "OPEN"
  /\ readyState' = [readyState EXCEPT ![c] = "CLOSING"]
  /\ parsing' = FALSE
  /\ UNCHANGED <<now, slices, scanner, sched, store, http, clients,
                 updateIntervals, lastMsg>>

\* The socket of a client emits 'error' (lines 713-716): the handler clears
\* the update timer; the library then closes the connection, so 'close'
\* follows.
WsError(c) ==
  /\ LoopIdle
  /\ c \in Range(clients)
  /\ readyState' = [readyState EXCEPT ![c] = "CLOSING"]
  /\ updateIntervals' = [updateIntervals EXCEPT ![c] = NULL]
  /\ parsing' = FALSE
  /\ UNCHANGED <<now, slices, scanner, sched, store, http, clients, lastMsg>>

\* A close handler that leaves the update timer armed.
WsClose_NoClear(c) ==
  /\ LoopIdle
  /\ c \in Range(clients)
  /\ clients' = SelectSeq(clients, LAMBDA d : d # c)
  /\ readyState' = [readyState EXCEPT ![c] = "CLOSED"]
  /\ parsing' = FALSE
  /\ UNCHANGED <<now, slices, scanner, sched, store, http, lastMsg,
                 updateIntervals>>

\* The socket of a client closes: it leaves wss.clients and its close
\* handler clears the update timer (lines 708-711).
WsClose(c) ==
  /\ LoopIdle
  /\ c \in Range(clients)
  /\ clients' = SelectSeq(clients, LAMBDA d : d # c)
  /\ readyState' = [readyState EXCEPT ![c] = "CLOSED"]
  /\ updateIntervals' = [updateIntervals EXCEPT ![c] = NULL]
  /\ parsing' = FALSE
  /\ UNCHANGED <<now, slices, scanner, sched, store, http, lastMsg>>

\* ------------------------------------------------------------------ time
\* Time passes while the loop is idle and no timer is due.
Advance ==
  /\ LoopIdle
  /\ now < Instant(MaxTicks)
  /\ \A t \in intervals : t.due > now
  /\ \A c \in 1..MaxClients :
       updateIntervals[c] # NULL => updateIntervals[c] > now
  /\ ~(bootTimer /\ now >= bootDelayMs)
  /\ \A r \in reqs : r.pc = "exec" => now - r.started < execTimeoutMs
  /\ now' = NextInstant(now)
  /\ parsing' = FALSE
  /\ UNCHANGED <<scanner, sched, store, http, sockets, slices>>

\* The scanner, its clients and the clock.
Next ==
  \/ StartRequest
  \/ StopRequest
  \/ BootStart
  \/ IntervalTick
  \/ \E c \in cycles : ScanGatherAndSave(c)
  \/ \E c \in cycles : ScanBroadcast(c)
  \/ \E s \in startCalls : StartReturn(s)
  \/ \E c \in 1..MaxClients : WsConnect(c)
  \/ \E c \in 1..MaxClients : WsClosing(c)
  \/ \E c \in 1..MaxClients : WsClose(c)
  \/ \E c \in 1..MaxClients : UpdateTick(c)
  \/ Advance

Spec == Init /\ [][Next]_vars

\* The scanner under its three controls (the boot timer and the two POST
\* endpoints), with no client connected.
NextCtl ==
  \/ StartRequest
  \/ StopRequest
  \/ BootStart
  \/ IntervalTick
  \/ \E c \in cycles : ScanGatherAndSave(c)
  \/ \E c \in cycles : ScanBroadcast(c)
  \/ \E s \in startCalls : StartReturn(s)
  \/ Advance

SpecCtl == Init /\ [][NextCtl]_vars

\* The scanner as started by the server itself and stopped by a client, and
\* the WebSocket clients.
NextPush ==
  \/ StopRequest
  \/ BootStart
  \/ IntervalTick
  \/ \E c \in cycles : ScanGatherAndSave(c)
  \/ \E c \in cycles : ScanBroadcast(c)
  \/ \E s \in startCalls : StartReturn(s)
  \/ \E c \in 1..MaxClients : WsConnect(c)
  \/ \E c \in 1..MaxClients : WsClosing(c)
  \/ \E c \in 1..MaxClients : WsClose(c)
  \/ \E c \in 1..MaxClients : UpdateTick(c)
  \/ Advance

SpecPush == Init /\ [][NextPush]_vars

\* The scanner as started by the server itself and stopped by a client, the
\* readers of the dashboard and the report script.
NextRead ==
  \/ StopRequest
  \/ BootStart
  \/ IntervalTick
  \/ \E c \in cycles : ScanGatherAndSave(c)
  \/ \E c \in cycles : ScanBroadcast(c)
  \/ \E s \in startCalls : StartReturn(s)
  \/ DashboardRequest
  \/ \E r \in reqs : ScriptWrite(r)
  \/ \E r \in reqs, o \in ExecOutcomes : ExecDone(r, o)
  \/ \E r \in reqs : DashboardBuild(r)
  \/ Advance

SpecRead == Init /\ [][NextRead]_vars

\* ---------------------------------------------------- threat level
\* The counts calculate_threat_level greps from login_summary.json,
\* suspicious_processes.json, portscans.json and recent_changes.json (a
\* missing file scores like a count of 0).  Each set holds one value on
\* either side of every threshold the script tests.
FailedLoginCounts == {10, 11, 51, 101}
SuspiciousCounts == {0, 1}
ScanCounts == {0, 1, 6}
ChangeCounts == {10, 11, 21}

\* The counts in the sections a live scan draws: getLiveLoginData has 10 to
\* 59 failed logins, getLiveSuspiciousProcesses 0 or 1 process and
\* getLivePortScans 1 to 3 scans.
LiveFailedLoginCounts == {10, 11, 51}
LiveSuspiciousCounts == {0, 1}
LiveScanCounts == {1, 3}

\* The three values getLiveExecutiveSummary draws overall_threat_level from.
LiveThreatLevels == {"Low", "Medium", "High"}

\* calculate_threat_level, lines 60-98: the points of each check.
loginPoints(n) ==
  IF n > 100 THEN 30 ELSE IF n > 50 THEN 20 ELSE IF n > 10 THEN 10 ELSE 0
processPoints(n) == IF n > 0 THEN 40 ELSE 0
scanPoints(n) == IF n > 5 THEN 25 ELSE IF n > 0 THEN 15 ELSE 0
changePoints(n) == IF n > 20 THEN 20 ELSE IF n > 10 THEN 10 ELSE 0

threat_score(c) ==
  loginPoints(c.failed_logins) + processPoints(c.suspicious_count)
    + scanPoints(c.scan_count) + changePoints(c.recent_changes)

\* calculate_threat_level with -gt in place of -ge.
threat_level_Strict(score) ==
  IF score > 70 THEN "CRITICAL"
  ELSE IF score > 50 THEN "HIGH"
  ELSE IF score > 30 THEN "MEDIUM"
  ELSE "LOW"

\* calculate_threat_level, lines 100-109.
threat_level(score) ==
  IF score >= 70 THEN "CRITICAL"
  ELSE IF score >= 50 THEN "HIGH"
  ELSE IF score >= 30 THEN "MEDIUM"
  ELSE "LOW"

\* The JSON line calculate_threat_level echoes (line 111).
calculate_threat_level(c) ==
  [threat_score |-> threat_score(c),
   threat_level |-> threat_level(threat_score(c))]

\* generate_executive_summary, lines 118-120 and 152-156: the two fields it
\* takes out of that line and writes to executive_summary.json.
generate_executive_summary(c) ==
  LET threat_info == calculate_threat_level(c)
  IN  [path |-> "report", inputs |-> c,
       score |-> threat_info.threat_score,
       level |-> threat_info.threat_level]

\* getLiveExecutiveSummary (lines 935-949): the level is drawn at random and
\* the object has no threat_score.
getLiveExecutiveSummary(c, level) ==
  [path |-> "live", inputs |-> c, score |-> NULL, level |-> level]

\* The counts in the data files when the server finds them.
InitSections ==
  /\ sect \in [failed_logins : FailedLoginCounts,
                suspicious_count : SuspiciousCounts,
                scan_count : ScanCounts,
                recent_changes : ChangeCounts]
  /\ lastSnap = NoSnap
  /\ prevSnap = NoSnap

\* One run of generate_report.sh: the monitors rewrite the login, port scan
\* and file change data (no script writes suspicious_processes.json), then
\* generate_executive_summary writes executive_summary.json.
ReportRun ==
  /\ \E f \in FailedLoginCounts, n \in ScanCounts, g \in ChangeCounts :
       /\ sect' = [sect EXCEPT !.failed_logins = f, !.scan_count = n,
                               !.recent_changes = g]
       /\ lastSnap' = generate_executive_summary(sect')
  /\ prevSnap' = lastSnap
  /\ UNCHANGED <<now, parsing, scanner, sched, store, http, sockets, probes,
                 alerts, more>>

\* One live scan as far as the threat level goes: gatherLiveData draws the
\* sections and the executive summary, saveLiveData writes them.
LiveSummary ==
  /\ \E f \in LiveFailedLoginCounts, p \in LiveSuspiciousCounts,
        n \in LiveScanCounts, level \in LiveThreatLevels :
       /\ sect' = [sect EXCEPT !.failed_logins = f, !.suspicious_count = p,
                               !.scan_count = n]
       /\ lastSnap' = getLiveExecutiveSummary(sect', level)
  /\ prevSnap' = lastSnap
  /\ UNCHANGED <<now, parsing, scanner, sched, store, http, sockets, probes,
                 alerts, more>>

\* The two producers of executive_summary.json.
NextThreat ==
  \/ ReportRun
  \/ LiveSummary

\* The server as constructed, with any counts in the data files.
ThreatInit ==
  /\ InitProcess
  /\ InitFiles
  /\ InitProbes
  /\ InitSections
  /\ InitAlerts
  /\ InitMore

SpecThreat == ThreatInit /\ [][NextThreat]_vars

\* ---------------------------------------------------------- GET /api/alerts
\* The shapes a parsed alert file is taken to have: the array the handler
\* expects, an object, or a non-empty string.
Shapes == {"array", "object", "string"}

\* Lines 583-622, for one section: `x.length > 0` and then `x.forEach(...)`.
\* An object has no length and is skipped; a non-empty string has a length
\* and no forEach, so the call throws a TypeError.
forEachThrows(sh) == sh = "string"

\* The data directory with each alert file absent, unparsable, or holding a
\* JSON value of some shape.
InitAlertFiles ==
  /\ \E st \in [AlertFiles -> {"absent", "bad", "ok"}] :
       files = [f \in Files |->
                  IF f \in AlertFiles THEN [st |-> st[f], stamp |-> 0]
                  ELSE [st |-> "ok", stamp |-> 0]]
  /\ shape \in [AlertFiles -> Shapes]
  /\ \A f \in AlertFiles : files[f].st # "ok" => shape[f] = "array"
  /\ alertsResp = NoAlerts

\* GET /api/alerts (lines 562-632); the handler has no await and runs to
\* its end at once.  A section is "default" when its file gave null.
AlertsRequest ==
  /\ MayDispatch
  /\ IF CacheHit("alerts_data")
     THEN /\ alertsResp' = [status |-> 200,
                            sections |-> cache["alerts_data"].data]
          /\ UNCHANGED cache
     ELSE LET Read == AlertFiles \cup {"alert_summary"}
              sections == [f \in AlertFiles |->
                             IF readJSONFile(f).value = NULL THEN "default"
                             ELSE shape[f]]
              read == [k \in CacheKeys |->
                         IF k \in Read /\ ReadCaches(k)
                         THEN [data |-> files[k].stamp, timestamp |-> now]
                         ELSE cache[k]]
          IN  IF \E f \in AlertFiles : forEachThrows(sections[f])
              THEN /\ alertsResp' = [status |-> 500, sections |-> <<>>]
                   /\ cache' = read
              ELSE /\ alertsResp' = [status |-> 200, sections |-> sections]
                   /\ cache' = CacheSet(read, "alerts_data", sections)
  /\ parsing' = TRUE
  /\ UNCHANGED <<now, scanner, sched, files, nextStamp, published, http,
                 sockets, probes, threat, shape, more>>

\* The scanner as started by the server itself and stopped by a client, and
\* the readers of the alerts.
NextAlerts ==
  \/ StopRequest
  \/ BootStart
  \/ IntervalTick
  \/ \E c \in cycles : ScanGatherAndSave(c)
  \/ \E c \in cycles : ScanBroadcast(c)
  \/ \E s \in startCalls : StartReturn(s)
  \/ AlertsRequest
  \/ Advance

\* The server as constructed, with any content in the alert files.
AlertsInit ==
  /\ InitProcess
  /\ InitAlertFiles
  /\ InitProbes
  /\ InitThreat
  /\ InitMore

SpecAlerts == AlertsInit /\ [][NextAlerts]_vars

\* ------------------------------------------------------------------ probes
\* The getters gatherLiveData calls, in the order of lines 787-796.
liveProbes ==
  <<"getLiveLoginData", "getLiveFailedLogins", "getLiveTopAttackers",
    "getLivePortScans", "getLiveSuspiciousProcesses", "getLiveOpenPorts",
    "getLiveConnectionStats", "getLiveSecurityMetrics", "getLiveAlertSummary",
    "getLiveExecutiveSummary">>

\* The scripts run_all_monitors runs, in the order of lines 27-50.
monitors ==
  <<"monitor_logins.sh", "detect_portscans.sh", "check_processes.sh",
    "monitor_files.sh", "geolocate_ips.sh">>

\* A gatherLiveData call and a run_all_monitors call have just begun; the
\* scripts found in the script directory are any of the five.
InitProbeRuns ==
  /\ probeRun = NoRun
  /\ \E P \in SUBSET Range(monitors) :
       monitorRun = [present |-> P, started |-> {}, finished |-> {}]

\* gatherLiveData, one property of its object literal: `await
\* this.getLive...()`.  The getter has no await of its own: the call runs it
\* to its end, and the next getter is called only when the await resumes.
LiveProbe(i) ==
  /\ i \in 1..Len(liveProbes)
  /\ probeRun.started = {liveProbes[j] : j \in 1..(i - 1)}
  /\ probeRun.finished = probeRun.started
  /\ probeRun' = [started |-> probeRun.started \cup {liveProbes[i]},
                  finished |-> probeRun.finished \cup {liveProbes[i]}]
  /\ UNCHANGED <<now, parsing, scanner, sched, store, http, sockets,
                 monitorRun, threat, alerts, more>>

\* run_all_monitors, one `if [[ -f ... ]]; then bash ...; fi`: the script is
\* started in the foreground once the commands before it are over.
MonitorStart(i) ==
  /\ i \in 1..Len(monitors)
  /\ monitors[i] \in monitorRun.present \ monitorRun.started
  /\ \A j \in 1..(i - 1) :
       monitors[j] \in monitorRun.present => monitors[j] \in monitorRun.finished
  /\ monitorRun' = [monitorRun EXCEPT !.started = @ \cup {monitors[i]}]
  /\ UNCHANGED <<now, parsing, scanner, sched, store, http, sockets,
                 probeRun, threat, alerts, more>>

\* The script run_all_monitors is waiting for exits.
MonitorExit(i) ==
  /\ i \in 1..Len(monitors)
  /\ monitors[i] \in monitorRun.started \ monitorRun.finished
  /\ monitorRun' = [monitorRun EXCEPT !.finished = @ \cup {monitors[i]}]
  /\ UNCHANGED <<now, parsing, scanner, sched, store, http, sockets,
                 probeRun, threat, alerts, more>>

\* The probes of one live scan and of one report run.
NextProbes ==
  \/ \E i \in 1..Len(liveProbes) : LiveProbe(i)
  \/ \E i \in 1..Len(monitors) : MonitorStart(i)
  \/ \E i \in 1..Len(monitors) : MonitorExit(i)

\* The server as constructed, with the two calls just begun.
ProbesInit ==
  /\ InitProcess
  /\ InitFiles
  /\ InitProbeRuns
  /\ InitThreat
  /\ InitAlerts
  /\ InitMore

SpecProbes == ProbesInit /\ [][NextProbes]_vars

\* ---------------------------------------------------------------- claims
\* C1: live-scan cycles are strictly serialized: a new performLiveScan never
\* begins while an earlier one has not finished, so at most one is in flight.
C1_CyclesSerialized == Cardinality(cycles) <= 1

\* C2: Start is idempotent: isActive holds exactly when scanInterval is set,
\* exactly the timer scanInterval names is armed and never a second one, no
\* Start call fails, every Start leaves the scanner RUNNING, and a Start on
\* a RUNNING scanner changes no state of the scanner.
C2_StartIdempotent ==
  /\ [](/\ isActive <=> scanInterval # NULL
        /\ \A t \in intervals : t.id = scanInterval
        /\ Cardinality(intervals) = (IF isActive THEN 1 ELSE 0)
        /\ \A s \in startCalls : s.settled # "rejected")
  /\ [][(StartRequest \/ BootStart) => isActive']_vars
  /\ [][(StartRequest \/ BootStart) /\ isActive
          => UNCHANGED <<scanner, intervals, cycles, startCalls>>]_vars

\* C2 witness: a Start was called on a RUNNING scanner whose previous Start
\* is still awaiting its initial scan, and one timer is armed.
C2_Witness ==
  /\ ctl = [op |-> "start", effective |-> FALSE]
  /\ isActive
  /\ startCalls # {}
  /\ Cardinality(intervals) = 1

\* C3: Stop is idempotent and cancels only future work: a scan begins only
\* on a scanner that is RUNNING after the step (a tick of a running scanner
\* or an effective Start); Stop touches no scan in flight; a scan in flight
\* can always take its next step, whatever isActive is; and a Stop on a
\* STOPPED scanner changes no state of the scanner.
C3_StopCancelsFutureOnly ==
  /\ [](\A c \in cycles : ENABLED (ScanGatherAndSave(c) \/ ScanBroadcast(c)))
  /\ [][nCycles' # nCycles => isActive']_vars
  /\ [][StopRequest => cycles' = cycles]_vars
  /\ [][StopRequest /\ ~isActive
          => UNCHANGED <<scanner, intervals, cycles, startCalls>>]_vars

\* C3 witness: the scanner was stopped while a scan was in flight, and that
\* scan has got as far as its save.
C3_Witness ==
  /\ ctl = [op |-> "stop", effective |-> TRUE]
  /\ ~isActive
  /\ \E c \in cycles : c.pc = "saved"

\* C4: an effective Start moves the scanner to RUNNING, arms the periodic
\* timer with a period of 10 s, and begins exactly one scan at once; the
\* Start call returns only after that scan has finished.
C4_EffectiveStart ==
  /\ [][(StartRequest \/ BootStart) /\ ~isActive
          => /\ isActive'
             /\ \E t \in intervals' :
                  /\ t.id = scanInterval'
                  /\ t.ms = 10000
                  /\ t.due = now + 10000
             /\ nCycles' = nCycles + 1
             /\ \E c \in cycles' \ cycles :
                  /\ cycles' = cycles \cup {c}
                  /\ c.id = nCycles'
                  /\ \E s \in startCalls' \ startCalls : s.cycle = c.id]_vars
  /\ [][\A s \in startCalls : StartReturn(s) => s.cycle \notin CycleIds]_vars

\* C4 witness: an effective Start has returned after its initial scan
\* finished, with the timer armed.
C4_Witness ==
  /\ isActive
  /\ startCalls = {}
  /\ cycles = {}
  /\ lastDone.by = "start"
  /\ intervals # {}

C6_ReadsLatest ==
  resp.status = 200 /\ resp.pubAt > 0 =>
    \A k \in SavedFiles : resp.body[k] # NULL /\ resp.body[k] >= resp.pubAt

\* C7: every snapshot a cycle produces (the live_update payload and the
\* GET /api/dashboard object) contains every section key of the contract.
C7_AllSectionKeys ==
  LET ContractKeys ==
        {"login_summary", "failed_logins", "top_attackers", "portscans",
         "open_ports", "connection_stats", "suspicious_processes",
         "top_processes", "process_summary", "file_integrity",
         "recent_changes", "ip_geolocation", "attack_by_country",
         "threat_map", "security_metrics", "alert_summary",
         "executive_summary"}
  IN  /\ lastDone.id # 0 => ContractKeys \subseteq lastDone.keys
      /\ resp.status = 200 => ContractKeys \subseteq DOMAIN resp.body

\* C8: in every broadcast the send of the live_update is called for each
\* client that is OPEN at broadcast time, whatever happens to the send to
\* another client.
C8_SubscribersIsolated == lastDone.missed = {}

\* C9: every performLiveScan that begins ends with exactly one broadcast of
\* its payload, also when the save failed, and never rejects.
C9_OneSnapshotPerCycle ==
  lastDone.id # 0 =>
    /\ lastDone.broadcasts = 1
    /\ lastDone.settled = "resolved"

\* C9 witness: a scan whose save failed has finished with its broadcast.
C9_Witness ==
  /\ lastDone.id # 0
  /\ lastDone.saved < Len(filesToSave)
  /\ lastDone.broadcasts = 1

\* C10: whatever the outcome of the script and the state of the data files,
\* GET /api/dashboard answers 200 with an object holding every key it
\* builds, never an error status.
C10_ProbeErrorsAbsorbed ==
  resp.status # 0 =>
    /\ resp.status = 200
    /\ DOMAIN resp.body = DashboardKeys

\* C10 witness: a request whose script was killed at the timeout was
\* answered 200 with a section that fell back to its default.
C10_Witness ==
  /\ resp.status = 200
  /\ resp.outcome = "timeout"
  /\ \E k \in DashboardKeys : resp.body[k] = NULL

\* C11: a section of a GET /api/dashboard response whose file could not be
\* read is filled with an explicit empty value, never with invented data.
C11_FailedSectionFallback == resp.status = 200 => resp.invented = {}

\* C14: the scanner's counter grows with every scan that begins: scanCount
\* after the step that begins a scan is greater than before it, also when
\* the scanner was stopped and started in between.
C14_SequenceIncreasing == [][nCycles' # nCycles => scanCount' > scanCount]_vars

\* C15: at most one writer of the data files is active at a time; a
\* generate_report.sh child process is an active writer from exec to its
\* exit, and saveLiveData (synchronous) must find none running.
C15_SingleWriter ==
  /\ Cardinality({r \in reqs : r.pc = "exec"}) <= 1

\* C16: when a live_update reaches a client, each file of filesToSave holds
\* the section that live_update carries.
C16_PublishedBeforePushed == lastDone.pushed => lastDone.inStore

\* C17: every message sent to a client has a type among connection, update
\* and live_update and a top-level timestamp, and an update or live_update
\* has a top-level data field.
C17_WireFormat ==
  lastMsg # NoMsg =>
    /\ lastMsg.type \in {"connection", "update", "live_update"}
    /\ {"type", "timestamp"} \subseteq lastMsg.top
    /\ lastMsg.type \in {"update", "live_update"} => "data" \in lastMsg.top

\* C12: the level generate_report.sh publishes is the documented threshold
\* function of its score: below 30 LOW, 30 to 49 MEDIUM, 50 to 69 HIGH, 70
\* and above CRITICAL, each boundary in the higher band; the score is the
\* sum of the points of the four checks.
C12_ThreatThresholds ==
  LET Documented(score) ==
        IF score < 30 THEN "LOW"
        ELSE IF score <= 49 THEN "MEDIUM"
        ELSE IF score <= 69 THEN "HIGH"
        ELSE "CRITICAL"
  IN  /\ lastSnap.path = "report" =>
           /\ lastSnap.score = threat_score(lastSnap.inputs)
           /\ lastSnap.level = Documented(lastSnap.score)
      /\ threat_level(29) = "LOW" /\ threat_level(30) = "MEDIUM"
      /\ threat_level(49) = "MEDIUM" /\ threat_level(50) = "HIGH"
      /\ threat_level(69) = "HIGH" /\ threat_level(70) = "CRITICAL"

\* C12 witness: a report was produced with a score on a boundary, 30, and
\* carries MEDIUM.
C12_Witness ==
  /\ lastSnap.path = "report"
  /\ lastSnap.score = 30
  /\ lastSnap.level = "MEDIUM"

\* C13: two executive summaries produced from the same counts carry the
\* same threat level (compared without regard to letter case), whichever
\* of the report script and the live scan produced them.
C13_LevelPureFunction ==
  LET Upper(l) == CASE l = "Low" -> "LOW"
                    [] l = "Medium" -> "MEDIUM"
                    [] l = "High" -> "HIGH"
                    [] OTHER -> l
  IN  (/\ lastSnap.path # "none"
       /\ prevSnap.path # "none"
       /\ lastSnap.inputs = prevSnap.inputs)
        => Upper(lastSnap.level) = Upper(prevSnap.level)

\* C18: GET /api/alerts never fails and never returns, as the value of a
\* section it expects to be an array, a value of another shape.
C18_MalformedRejected ==
  alertsResp.status # 0 =>
    /\ alertsResp.status = 200
    /\ \A f \in AlertFiles : alertsResp.sections[f] \in {"array", "default"}

\* C19: all probes of a cycle run concurrently: no probe of a collection
\* run has finished while another probe of that run is yet to be started.
C19_ProbesConcurrent ==
  /\ probeRun.finished # {} => probeRun.started = Range(liveProbes)
  /\ monitorRun.finished # {} => monitorRun.started = monitorRun.present

\* C20: runMonitoringScript never rejects and always settles: the paths
\* that start no child process settle at once, a child process still
\* running when the 30 s timeout has passed is ended by the exec callback,
\* and the caller continues exactly when the promise is resolved.
C20_AlwaysSettles ==
  \A r \in reqs :
    /\ r.settled \in {"pending", "resolved"}
    /\ r.outcome \in NoExec => r.pc = "ready"
    /\ r.pc = "ready" <=> r.settled = "resolved"
    /\ (r.pc = "exec" /\ LoopIdle /\ now - r.started >= execTimeoutMs)
         => ENABLED ExecDone(r, "timeout")

\* C20 witness: a script that was still running at the timeout has been
\* ended and the promise of its caller is resolved.
C20_Witness ==
  \E r \in reqs :
    /\ r.pc = "ready"
    /\ r.outcome = "timeout"
    /\ r.settled = "resolved"
    /\ ~r.wrote

\* ------------------------------------------- what a socket holds unsent
\* The broadcasts followed for a client's socket.
MaxSends == 9

\* One live scan as far as a client's socket goes: performLiveScan reaches
\* broadcastLiveUpdate, which hands the live_update to the socket of every
\* OPEN client (lines 983-993).  ws.send returns at once; the socket holds
\* the message until the peer takes it; nothing is dropped and no client is
\* removed here.
LiveBroadcast ==
  /\ LoopIdle
  /\ nSends < MaxSends
  /\ nSends' = nSends + 1
  /\ outbound' = [c \in 1..MaxClients |->
                    IF c \in Range(OpenClients)
                    THEN outbound[c] + 1
                    ELSE outbound[c]]
  /\ parsing' = FALSE
  /\ UNCHANGED <<now, scanner, sched, store, http, sockets, probes, threat,
                 alerts, page, manual, summaries, recent>>

\* The peer of a client takes the oldest message its socket holds; what a
\* closed socket held is discarded the same way.
Deliver(c) ==
  /\ outbound[c] > 0
  /\ outbound' = [outbound EXCEPT ![c] = outbound[c] - 1]
  /\ UNCHANGED <<now, parsing, scanner, sched, store, http, sockets, probes,
                 threat, alerts, nSends, page, manual, summaries, recent>>

NextBuffers ==
  \/ \E c \in 1..MaxClients : WsConnect(c)
  \/ \E c \in 1..MaxClients : WsClosing(c)
  \/ \E c \in 1..MaxClients : WsClose(c)
  \/ LiveBroadcast
  \/ \E c \in 1..MaxClients : Deliver(c)

SpecBuffers == Init /\ [][NextBuffers]_vars

\* C21: per-subscriber buffering is bounded with drop-oldest: the number
\* of messages held undelivered for a subscriber never exceeds the queue
\* capacity (8 in the publisher's contract), however slowly it drains.
C21_BoundedDropOldest ==
  \A c \in Range(clients) : outbound[c] <= 8

\* ------------------------------------------------------------ auto-start
\* The server left to itself: no scan control request arrives.  Clients
\* connect and leave; time stops short of the first update timer.
NextAuto ==
  \/ BootStart
  \/ IntervalTick
  \/ \E c \in cycles : ScanGatherAndSave(c)
  \/ \E c \in cycles : ScanBroadcast(c)
  \/ \E s \in startCalls : StartReturn(s)
  \/ \E c \in 1..MaxClients : WsConnect(c)
  \/ \E c \in 1..MaxClients : WsClosing(c)
  \/ \E c \in 1..MaxClients : WsClose(c)
  \/ Advance

\* Time passes, a due timer fires once the loop is idle, and a continuation
\* that is ready runs: the event loop of Node.js.
FairAuto ==
  /\ WF_vars(Advance)
  /\ WF_vars(BootStart)
  /\ WF_vars(IntervalTick)
  /\ WF_vars(\E c \in cycles : ScanGatherAndSave(c))
  /\ WF_vars(\E c \in cycles : ScanBroadcast(c))
  /\ WF_vars(\E s \in startCalls : StartReturn(s))

SpecAuto == Init /\ [][NextAuto]_vars /\ FairAuto

NextTimers ==
  \/ StopRequest
  \/ BootStart
  \/ IntervalTick
  \/ \E c \in cycles : ScanGatherAndSave(c)
  \/ \E c \in cycles : ScanBroadcast(c)
  \/ \E s \in startCalls : StartReturn(s)
  \/ \E c \in 1..MaxClients : WsConnect(c)
  \/ \E c \in 1..MaxClients : WsClosing(c)
  \/ \E c \in 1..MaxClients : WsError(c)
  \/ \E c \in 1..MaxClients : WsClose(c)
  \/ \E c \in 1..MaxClients : UpdateTick(c)
  \/ Advance

SpecTimers == Init /\ [][NextTimers]_vars

\* The clients whose update timer is armed.
LiveTimers == {c \in 1..MaxClients : updateIntervals[c] # NULL}

\* C23: each connection owns one update timer while it is open: a timer is
\* armed only for a connection that has not closed, an OPEN connection
\* that has not errored has its timer, the armed timers never outnumber
\* the connections that have not closed, a timer is armed only by a
\* connect, and an update message is sent only at the tick of the armed
\* timer of an OPEN connection, so never after its close or error.
C23_TimerPerConnection ==
  /\ [](LiveTimers \subseteq Range(clients))
  /\ [](Range(OpenClients) \subseteq LiveTimers)
  /\ [](Cardinality(LiveTimers) <= Len(clients))
  /\ [][\A c \in 1..MaxClients :
          (updateIntervals[c] = NULL /\ updateIntervals'[c] # NULL)
             => (c \notin Range(clients) /\ c \in Range(clients')
                 /\ updateIntervals'[c] = now + updateIntervalMs)]_vars
  /\ [][(lastMsg' = updateMessage /\ lastMsg # updateMessage)
          => \E c \in Range(OpenClients) :
                /\ updateIntervals[c] # NULL /\ updateIntervals[c] <= now
                /\ updateIntervals'[c] = now + updateIntervalMs]_vars

\* An update message has been sent to the second connection, whose timer
\* is armed again, while the first, made before it, has closed and holds
\* no timer.
C23_Witness ==
  /\ lastMsg = updateMessage
  /\ 2 \in Range(OpenClients) /\ updateIntervals[2] > now
  /\ readyState[1] = "CLOSED" /\ 1 \notin Range(clients)
  /\ updateIntervals[1] = NULL

\* ------------------------------------------- the dashboard page's socket
\* The WebSocket objects of the page that are followed.
MaxPageSockets == 7

\* SOCDashboard's constructor (lines 163-165).
maxReconnectAttempts == 5
reconnectDelay == 3000

\* initWebSocket (lines 213-248): a new WebSocket, CONNECTING, with the
\* page's handlers; it replaces this.ws.
initWebSocket ==
  /\ nPageSockets' = nPageSockets + 1
  /\ pageSockets' = pageSockets \cup
       {[id |-> nPageSockets + 1, state |-> "CONNECTING", opened |-> FALSE]}

\* A scheduleReconnect without its limit.
scheduleReconnect_NoLimit ==
  /\ reconnectAttempts' = reconnectAttempts + 1
  /\ reconnectTimers' = reconnectTimers \cup
       {[after |-> nPageSockets,
         delay |-> reconnectDelay * (reconnectAttempts + 1)]}

\* scheduleReconnect (lines 250-262); `after` names the socket whose close
\* scheduled the timer.
scheduleReconnect ==
  IF reconnectAttempts < maxReconnectAttempts
  THEN /\ reconnectAttempts' = reconnectAttempts + 1
       /\ reconnectTimers' = reconnectTimers \cup
            {[after |-> nPageSockets,
              delay |-> reconnectDelay * (reconnectAttempts + 1)]}
  ELSE UNCHANGED <<reconnectAttempts, reconnectTimers>>

\* The page loads: the constructor runs init, which calls initWebSocket
\* (lines 170, 184).
PageLoad ==
  /\ nPageSockets = 0
  /\ initWebSocket
  /\ UNCHANGED <<now, parsing, scanner, sched, store, http, sockets, probes,
                 threat, alerts, buffers, reconnectAttempts, reconnectTimers,
                 manual, summaries, recent>>

\* onopen (lines 220-224).
PageSocketOpen(w) ==
  /\ w \in pageSockets /\ w.state = "CONNECTING"
  /\ pageSockets' = (pageSockets \ {w}) \cup
       {[w EXCEPT !.state = "OPEN", !.opened = TRUE]}
  /\ reconnectAttempts' = 0
  /\ UNCHANGED <<now, parsing, scanner, sched, store, http, sockets, probes,
                 threat, alerts, buffers, reconnectTimers, nPageSockets,
                 manual, summaries, recent>>

\* onclose (lines 235-239), of a socket that was open or that failed to
\* connect (onerror, lines 241-244, changes only the status display).
PageSocketClose(w) ==
  /\ w \in pageSockets /\ w.state \in {"CONNECTING", "OPEN"}
  /\ pageSockets' = (pageSockets \ {w}) \cup {[w EXCEPT !.state = "CLOSED"]}
  /\ scheduleReconnect
  /\ UNCHANGED <<now, parsing, scanner, sched, store, http, sockets, probes,
                 threat, alerts, buffers, nPageSockets, manual, summaries,
                 recent>>

\* The setTimeout callback of scheduleReconnect (lines 255-257).
ReconnectFire(t) ==
  /\ t \in reconnectTimers
  /\ nPageSockets < MaxPageSockets
  /\ reconnectTimers' = reconnectTimers \ {t}
  /\ initWebSocket
  /\ UNCHANGED <<now, parsing, scanner, sched, store, http, sockets, probes,
                 threat, alerts, buffers, reconnectAttempts, manual,
                 summaries, recent>>

NextPage ==
  \/ PageLoad
  \/ \E w \in pageSockets : PageSocketOpen(w)
  \/ \E w \in pageSockets : PageSocketClose(w)
  \/ \E t \in reconnectTimers : ReconnectFire(t)

SpecPage == Init /\ [][NextPage]_vars

\* The sockets of the page that closed since the last one that opened, that
\* one included: the consecutive closes.
LastOpened ==
  LET o == {w.id : w \in {v \in pageSockets : v.opened}}
  IN  IF o = {} THEN 0 ELSE CHOOSE i \in o : \A j \in o : j <= i
ConsecutiveCloses ==
  Cardinality({w \in pageSockets :
                 w.state = "CLOSED" /\ w.id >= LastOpened})

\* C24: the page's reconnection is bounded: reconnectAttempts stays in
\* 0..5; the retry scheduled at the k-th consecutive close is due 3000*k ms
\* after it; an open resets the counter to 0; after 5 consecutive failed
\* retries nothing is scheduled and no socket is left; and at any time
\* there is at most one pending reconnect timer or unclosed socket.
C24_BoundedReconnect ==
  /\ [](reconnectAttempts \in 0..5)
  /\ [](\A t \in reconnectTimers : t.delay = 3000 * ConsecutiveCloses)
  /\ [][(\E w \in pageSockets' : w.state = "OPEN" /\ w \notin pageSockets)
          => reconnectAttempts' = 0]_vars
  /\ [](ConsecutiveCloses <= 6)
  /\ [](ConsecutiveCloses = 6 =>
          /\ reconnectTimers = {}
          /\ \A w \in pageSockets : w.state = "CLOSED")
  /\ [](Cardinality(reconnectTimers)
          + Cardinality({w \in pageSockets : w.state # "CLOSED"}) <= 1)

\* The fifth retry in a row has failed: the counter is at 5, six sockets
\* have closed since the last open, and no timer is pending.
C24_Witness ==
  /\ reconnectAttempts = 5
  /\ ConsecutiveCloses = 6
  /\ reconnectTimers = {}
  /\ \E w \in pageSockets : w.opened

\* ------------------------------------------------- GET /api/scan/status
\* GET /api/scan/status (lines 655-661): the handler is synchronous and
\* answers with the three fields of the scanner.
StatusRequest ==
  /\ MayDispatch
  /\ statusResp' = [isActive |-> isActive, lastScanTime |-> lastScanTime,
                    scanCount |-> scanCount]
  /\ parsing' = TRUE
  /\ UNCHANGED <<now, scanner, sched, store, http, sockets, probes, threat,
                 alerts, buffers, page, survivors, runResp, summaries,
                 recent>>

\* The scanner with its controls and the status route.
NextStatus ==
  \/ StartRequest
  \/ StopRequest
  \/ StatusRequest
  \/ BootStart
  \/ IntervalTick
  \/ \E c \in cycles : ScanGatherAndSave(c)
  \/ \E c \in cycles : ScanBroadcast(c)
  \/ \E s \in startCalls : StartReturn(s)
  \/ Advance

SpecStatus == Init /\ [][NextStatus]_vars

\* C25: GET /api/scan/status reports the scheduler's true state: the
\* response carries the scanner's fields as they are; isActive holds
\* exactly while the periodic timer is armed; an effective Start leaves
\* scanCount at 1 (reset to 0, then the initial scan), every other scan
\* begun adds 1, and nothing else, Stop included, changes it; lastScanTime
\* is set to the current time whenever a scan begins and is otherwise left
\* alone, so it is never cleared.
C25_StatusIsTrue ==
  /\ [][statusResp' # statusResp =>
          statusResp' = [isActive |-> isActive, lastScanTime |-> lastScanTime,
                         scanCount |-> scanCount]]_vars
  /\ [](isActive <=> intervals # {})
  /\ [](Cardinality(intervals) <= 1)
  /\ [][(~isActive /\ isActive') =>
          (nCycles' = nCycles + 1 /\ scanCount' = 1)]_vars
  /\ [][(isActive /\ nCycles' # nCycles) =>
          (nCycles' = nCycles + 1 /\ scanCount' = scanCount + 1)]_vars
  /\ [][nCycles' = nCycles =>
          (scanCount' = scanCount /\ lastScanTime' = lastScanTime)]_vars
  /\ [][nCycles' # nCycles => lastScanTime' = now]_vars
  /\ [](nCycles > 0 => lastScanTime # NULL)

\* After a Start, a tick and a Stop the status route has answered: not
\* active, two scans counted, the last one begun at the tick.
C25_Witness ==
  /\ statusResp = [isActive |-> FALSE, lastScanTime |-> 15000,
                   scanCount |-> 2]
  /\ ~isActive /\ intervals = {}
  /\ ctl = [op |-> "stop", effective |-> TRUE]

\* -------------------------------------------------- POST /api/scan/run
\* POST /api/scan/run up to `await runMonitoringScript(...)` (lines
\* 663-665): the script is missing, or a child process is started.
ManualRunRequest ==
  /\ MayDispatch
  /\ nReqs < MaxReqs
  /\ nReqs' = nReqs + 1
  /\ \/ \E o \in NoExec :
          reqs' = reqs \cup
            {[id |-> nReqs + 1, kind |-> "manual", pc |-> "ready",
              started |-> now, wrote |-> FALSE, outcome |-> o,
              settled |-> runMonitoringScriptSettles(o)]}
     \/ reqs' = reqs \cup
            {[id |-> nReqs + 1, kind |-> "manual", pc |-> "exec",
              started |-> now, wrote |-> FALSE, outcome |-> "running",
              settled |-> "pending"]}
  /\ parsing' = TRUE
  /\ UNCHANGED <<now, scanner, sched, store, resp, sockets, probes, threat,
                 alerts, buffers, page, manual, summaries, recent>>

\* A handler of POST /api/scan/run that answers without dataCache.clear().
ManualRunDone_NoClear(r) ==
  /\ r \in reqs /\ r.pc = "ready" /\ r.kind = "manual"
  /\ runResp' = IF r.settled = "rejected" THEN "error" ELSE "success"
  /\ survivors' = IF r.settled = "rejected" THEN survivors ELSE cache
  /\ reqs' = reqs \ {r}
  /\ parsing' = FALSE
  /\ UNCHANGED <<now, scanner, sched, store, nReqs, resp, sockets, probes,
                 threat, alerts, buffers, page, statusResp, summaries,
                 recent>>

\* POST /api/scan/run after the await (lines 666-672): dataCache.clear()
\* empties the Map and the handler answers; a rejected promise is answered
\* with the error.  `survivors` keeps what the handler left in the cache.
ManualRunDone(r) ==
  /\ r \in reqs /\ r.pc = "ready" /\ r.kind = "manual"
  /\ IF r.settled = "rejected"
     THEN /\ runResp' = "error"
          /\ UNCHANGED <<cache, survivors>>
     ELSE /\ runResp' = "success"
          /\ cache' = [k \in CacheKeys |-> NoEntry]
          /\ survivors' = cache'
  /\ reqs' = reqs \ {r}
  /\ parsing' = FALSE
  /\ UNCHANGED <<now, scanner, sched, files, nextStamp, published, nReqs,
                 resp, sockets, probes, threat, alerts, buffers, page,
                 statusResp, summaries, recent>>

\* The scanner as started by the server itself with its first live scan,
\* the readers of the dashboard and of the alerts, and manual scans.
NextManual ==
  \/ BootStart
  \/ \E c \in cycles : ScanGatherAndSave(c)
  \/ \E c \in cycles : ScanBroadcast(c)
  \/ \E s \in startCalls : StartReturn(s)
  \/ DashboardRequest
  \/ AlertsRequest
  \/ ManualRunRequest
  \/ \E r \in reqs : ScriptWrite(r)
  \/ \E r \in reqs, o \in ExecOutcomes : ExecDone(r, o)
  \/ \E r \in reqs : DashboardBuild(r)
  \/ \E r \in reqs : ManualRunDone(r)
  \/ Advance

SpecManual == Init /\ [][NextManual]_vars

\* The entry of a key is one the last manual scan left in place.
Survived(k) ==
  /\ survivors[k].timestamp # NULL
  /\ survivors[k].timestamp = cache[k].timestamp

\* C26: a manual scan forces fresh data: the step in which POST
\* /api/scan/run answers with success leaves no entry in the cache, under
\* any interleaving with dashboard and alerts requests, report scripts and
\* live scans; so a GET that is served from the cache afterwards is never
\* served an entry the manual scan left in place.
C26_ManualScanFresh ==
  /\ [][(\E r \in reqs : /\ r.kind = "manual" /\ runResp' = "success"
                          /\ \A q \in reqs' : q.id # r.id)
          => \A k \in CacheKeys : cache'[k].timestamp = NULL]_vars
  /\ [](\A k \in CacheKeys : ~Survived(k))
  /\ [][(resp' # resp /\ resp'.outcome = "cached")
          => (/\ ~Survived("dashboard_data")
              /\ resp'.body = cache["dashboard_data"].data)]_vars
  /\ [][(alertsResp' # alertsResp /\ CacheHit("alerts_data"))
          => ~Survived("alerts_data")]_vars

\* A manual scan has answered with success and emptied the cache; a
\* dashboard request and an alerts request have filled it again since, and
\* a later GET /api/dashboard was served from the new entry.
C26_Witness ==
  /\ runResp = "success"
  /\ reqs = {} /\ nReqs = MaxReqs
  /\ resp.outcome = "cached"
  /\ cache["dashboard_data"].timestamp # NULL
  /\ cache["alerts_data"].timestamp # NULL

\* ------------------------------------------------------ DataCache's TTL
\* The entry of a key was set fewer than 30000 ms ago.
Younger(k) ==
  /\ cache[k].timestamp # NULL
  /\ now - cache[k].timestamp < 30000

\* C27: the cache bounds staleness by its TTL: a GET /api/dashboard is
\* answered from the cache exactly when the entry was set strictly fewer
\* than 30000 ms earlier, with the stored value; with no entry or an older
\* one the handler goes on to the script; and readJSONFile replaces the
\* entry of a file only when there is none or it is 30000 ms old or more.
C27_TtlBound ==
  /\ [][(resp' # resp /\ resp'.outcome = "cached")
          => (/\ Younger("dashboard_data")
              /\ resp'.body = cache["dashboard_data"].data)]_vars
  /\ [][nReqs' # nReqs => ~Younger("dashboard_data")]_vars
  /\ [][\A k \in Files :
          cache'[k].timestamp # cache[k].timestamp => ~Younger(k)]_vars
  /\ [](\A k \in CacheKeys :
          cache[k].timestamp # NULL => cache[k].timestamp <= now)

\* The dashboard entry was set at 5 s and has answered a request; the
\* request that arrives exactly 30000 ms after the set is not served from
\* it and waits for the script.
C27_Witness ==
  /\ now = 35000
  /\ cache["dashboard_data"].timestamp = 5000
  /\ resp.outcome = "cached"
  /\ \E r \in reqs : r.id = 2 /\ r.started = 35000

\* ------------------------------------ alert_summary.json, soc_status.json
\* generate_alert_summary (lines 234-280 of generate_report.sh) from the
\* counts it greps out of the data files.
generate_alert_summary(s) ==
  LET critical == (IF s.scan_count > 5 THEN 1 ELSE 0)
                  + (IF s.failed_logins > 50 THEN 1 ELSE 0)
      high     == s.suspicious_count
                  + (IF s.scan_count > 5 THEN 0 ELSE s.scan_count)
                  + (IF s.failed_logins <= 50 /\ s.failed_logins > 10
                     THEN 1 ELSE 0)
      medium   == IF s.failed_logins <= 10 THEN s.failed_logins ELSE 0
      low      == 0
  IN  [total_alerts |-> critical + high + medium + low,
       critical_alerts |-> critical, high_alerts |-> high,
       medium_alerts |-> medium, low_alerts |-> low]

\* generate_soc_status (lines 283-305) from alert_summary.json.
generate_soc_status(a) ==
  IF a.critical_alerts # NULL /\ a.critical_alerts > 0 THEN "critical"
  ELSE "operational"

\* Values getLiveAlertSummary draws (lines 924-933): total_alerts is 5 to
\* 24, critical_alerts 1 to 5, high_alerts 2 to 9, medium_alerts 3 to 12
\* and low_alerts 5 to 19, each drawn by itself.
LiveTotals == {5, 11, 24}
LiveCriticals == {1, 5}
LiveHighs == {2, 9}
LiveMediums == {3}
LiveLows == {5}

\* One run of generate_report.sh as far as the two summaries go:
\* generate_alert_summary writes alert_summary.json from the counts in the
\* data files, then generate_soc_status reads it back and writes
\* soc_status.json.
ReportSummaries ==
  /\ \E f \in FailedLoginCounts, p \in SuspiciousCounts, n \in ScanCounts :
       alertFile' = generate_alert_summary(
                      [failed_logins |-> f, suspicious_count |-> p,
                       scan_count |-> n])
  /\ socFile' = generate_soc_status(alertFile')
  /\ UNCHANGED <<now, parsing, scanner, sched, store, http, sockets, probes,
                 threat, alerts, buffers, page, manual, updateData, recent>>

\* One live scan as far as the two summaries go: saveLiveData writes the
\* alert summary that getLiveAlertSummary drew; soc_status.json is not
\* among the files it writes (lines 958-970).
LiveAlertSummary ==
  /\ \E t \in LiveTotals, c \in LiveCriticals, h \in LiveHighs,
        m \in LiveMediums, l \in LiveLows :
       alertFile' = [total_alerts |-> t, critical_alerts |-> c,
                     high_alerts |-> h, medium_alerts |-> m,
                     low_alerts |-> l]
  /\ UNCHANGED <<now, parsing, scanner, sched, store, http, sockets, probes,
                 threat, alerts, buffers, page, manual, socFile, updateData,
                 recent>>

\* The update timer of a client builds its message from the two files
\* (lines 690-702).
UpdateSend ==
  /\ updateData' = [soc_status |-> socFile,
                    critical_alerts |-> alertFile.critical_alerts]
  /\ UNCHANGED <<now, parsing, scanner, sched, store, http, sockets, probes,
                 threat, alerts, buffers, page, manual, alertFile, socFile,
                 recent>>

\* The two producers of alert_summary.json and the reader of both files.
NextSummaries ==
  \/ ReportSummaries
  \/ LiveAlertSummary
  \/ UpdateSend

SpecSummaries == Init /\ [][NextSummaries]_vars

\* C28: in every update message soc_status.status is "critical" exactly
\* when alert_summary.critical_alerts is greater than 0.
C28_StatusAgreesWithAlerts ==
  updateData.soc_status # "none" =>
    (updateData.soc_status = "critical" <=> updateData.critical_alerts > 0)

\* C29: in every alert_summary.json that was written, total_alerts equals
\* critical_alerts + high_alerts + medium_alerts + low_alerts.
C29_TotalIsSum ==
  alertFile.total_alerts # NULL =>
    alertFile.total_alerts = alertFile.critical_alerts
      + alertFile.high_alerts + alertFile.medium_alerts
      + alertFile.low_alerts

\* ------------------------------------------------------- recent_alerts
\* The length recent_alerts is cut to (line 624).
recentLimit == 20

\* The alert arrays GET /api/alerts may find in a file: none, one or twenty
\* entries, each with its timestamp (all entries of a file written in one
\* run carry the time of that run).
AlertCounts == {0, 1, 20}
AlertTimes == {1, 2}
AlertArrays ==
  {[i \in 1..n |-> [timestamp |-> t]] : n \in AlertCounts, t \in AlertTimes}

\* Lines 579-624: the brute force alerts are pushed first, then the
\* suspicious processes, then the port scans, each with its type and the
\* timestamp of its entry, and slice(0, 20) keeps the head of the list.
recent_alerts(in) ==
  LET typed(q, ty) == [i \in 1..Len(q) |->
                         [type |-> ty, timestamp |-> q[i].timestamp]]
      all == typed(in.brute_force_alerts, "Brute Force Attack")
             \o typed(in.suspicious_activities, "Suspicious Process")
             \o typed(in.port_scan_alerts, "Port Scan")
  IN  SubSeq(all, 1, IF Len(all) < recentLimit THEN Len(all)
                     ELSE recentLimit)

\* GET /api/alerts on a cache miss, as far as recent_alerts goes: the three
\* arrays are read and recent_alerts is built from them.
AlertsRecent ==
  /\ alertInput' \in [brute_force_alerts : AlertArrays,
                      suspicious_activities : AlertArrays,
                      port_scan_alerts : AlertArrays]
  /\ recentAlerts' = recent_alerts(alertInput')
  /\ UNCHANGED <<now, parsing, scanner, sched, store, http, sockets, probes,
                 threat, alerts, buffers, page, manual, summaries>>

NextRecent == AlertsRecent

SpecRecent == Init /\ [][NextRecent]_vars

\* The alerts of the arrays read, and those among a list of alerts, that
\* are stamped t or later.
AlertsSince(t) ==
  LET n(q) == Cardinality({i \in 1..Len(q) : q[i].timestamp >= t})
  IN  n(alertInput.brute_force_alerts) + n(alertInput.suspicious_activities)
      + n(alertInput.port_scan_alerts)
KeptSince(t) ==
  Cardinality({i \in 1..Len(recentAlerts) : recentAlerts[i].timestamp >= t})

\* C30: recent_alerts holds at most 20 entries and they are the 20 most
\* recent alerts of the three arrays together: for every time t, as many
\* alerts stamped t or later are kept as exist, up to 20.
C30_MostRecentTwenty ==
  /\ Len(recentAlerts) <= 20
  /\ \A t \in AlertTimes :
       KeptSince(t) = IF AlertsSince(t) < 20 THEN AlertsSince(t) ELSE 20

====
